---- MODULE Spec2Model ----
(***************************************************************************)
(* Event extraction of backend/analysis/patterns.py: find_patterns and its *)
(* helpers, as a state machine over one call.  The raw sample list is the  *)
(* input; the pass smooths it, locates the match start, walks the smoothed *)
(* samples once and deduplicates the stock events.                         *)
(*                                                                         *)
(* Indices are 1-based here and 0-based in the source: the source index of *)
(* position k is k - 1.  Percents are integers; timestamps are counted in  *)
(* ticks, TicksPerSecond to the second, and Sec(n) is n seconds in ticks.    *)
(***************************************************************************)
EXTENDS Integers, Sequences, FiniteSets

\* Python's None for a percent, a stock count or an unset local.
None == -1

\* ---------------------------------------------------------------- bounds
MaxLen == 6
ComboLen == 8
TwiceLen == 5
MaxEvents == 3
StartLen == 6
ScenLen == 9
HitsLen == 12
GapLen == 8
DropLen == 20
EndLen == 16
KillLen == 11
LivesLen == 17
TicksPerSecond == 2

\* ------------------------------------------------------ program constants
window_size == 5
lookback_frames == 60
time_window == 5

Sec(n) == n * TicksPerSecond

\* ---------------------------------------------------------------- helpers
Max2(a, b) == IF a >= b THEN a ELSE b
Min2(a, b) == IF a <= b THEN a ELSE b

\* Python's `x or 0` on a reading: None and 0 both give 0.
Or0(x) == IF x = None THEN 0 ELSE x

\* Python truthiness of a number-or-None local: None and 0 are falsy.
Truthy(x) == x # None /\ x # 0

Pct(s, player) == IF player = "p1" THEN s.p1_percent ELSE s.p2_percent
Stk(s, player) == IF player = "p1" THEN s.p1_stocks ELSE s.p2_stocks

\* The non-None readings of a window, as the set of positions holding them.
Present(states, lo, hi, player, isPct) ==
    {j \in lo..hi : (IF isPct THEN Pct(states[j], player) ELSE Stk(states[j], player)) # None}

\* sorted(vals)[len(vals) // 2] over the percent readings at positions js.
MedianOf(states, js, player) ==
    LET k == Cardinality(js) \div 2
        v(j) == Pct(states[j], player)
    IN  CHOOSE x \in {v(j) : j \in js} :
          /\ Cardinality({j \in js : v(j) < x}) <= k
          /\ k < Cardinality({j \in js : v(j) <= x})

\* max(set(vals), key=vals.count): a set of small non-negative ints iterates in
\* ascending order and max keeps the first maximum, so ties go to the smallest.
ModeOf(states, js, player) ==
    LET v(j) == Stk(states[j], player)
        cnt(x) == Cardinality({j \in js : v(j) = x})
        vals == {v(j) : j \in js}
        best == {x \in vals : \A y \in vals : cnt(y) <= cnt(x)}
    IN  CHOOSE x \in best : \A y \in best : x <= y

SmoothedPercent(states, k, player) ==
    LET lo == Max2(1, k - window_size \div 2)
        hi == Min2(Len(states), k + window_size \div 2)
        js == Present(states, lo, hi, player, TRUE)
    IN  IF js # {} THEN MedianOf(states, js, player) ELSE Pct(states[k], player)

SmoothedStocksKeepZero(states, k, player) ==
    LET lo == Max2(1, k - window_size \div 2)
        hi == Min2(Len(states), k + window_size \div 2)
        js == Present(states, lo, hi, player, FALSE)
    IN  IF js = {} THEN Stk(states[k], player)
        ELSE IF Stk(states[k], player) = 0 THEN 0
        ELSE ModeOf(states, js, player)

\* The same with the raw 0 voted away like any other reading.
SmoothedStocksModeOnly(states, k, player) ==
    LET lo == Max2(1, k - window_size \div 2)
        hi == Min2(Len(states), k + window_size \div 2)
        js == Present(states, lo, hi, player, FALSE)
    IN  IF js = {} THEN Stk(states[k], player) ELSE ModeOf(states, js, player)

SmoothedStocks(states, k, player) == SmoothedStocksKeepZero(states, k, player)

smooth_game_states(states) ==
    IF Len(states) < 3 THEN states
    ELSE [k \in 1..Len(states) |->
            [timestamp  |-> states[k].timestamp,
             p1_percent |-> SmoothedPercent(states, k, "p1"),
             p2_percent |-> SmoothedPercent(states, k, "p2"),
             p1_stocks  |-> SmoothedStocks(states, k, "p1"),
             p2_stocks  |-> SmoothedStocks(states, k, "p2")]]

\* ------------------------------------------------------- start boundary
\* Both players at <= 5% with 3 stocks (lines 52-59).
CleanStart(s) ==
    /\ Or0(s.p1_percent) <= 5 /\ Or0(s.p2_percent) <= 5
    /\ s.p1_stocks = 3 /\ s.p2_stocks = 3

\* Positions k at which consecutive_start_frames reaches 3: k-2, k-1, k clean.
StartRuns(sm) ==
    {k \in 3..Len(sm) : CleanStart(sm[k - 2]) /\ CleanStart(sm[k - 1]) /\ CleanStart(sm[k])}

\* The same with either kind of reading sufficing.
FallbackStartsEither(sm) ==
    {k \in 1..Len(sm) :
        /\ sm[k].timestamp >= Sec(5)
        /\ (\/ sm[k].p1_percent # None \/ sm[k].p2_percent # None
            \/ sm[k].p1_stocks # None \/ sm[k].p2_stocks # None)}

\* First gameplay-like sample at or after t = 5 (lines 72-86).
FallbackStarts(sm) ==
    {k \in 1..Len(sm) :
        /\ sm[k].timestamp >= Sec(5)
        /\ (sm[k].p1_percent # None \/ sm[k].p2_percent # None)
        /\ (sm[k].p1_stocks # None \/ sm[k].p2_stocks # None)}

MinOf(S) == CHOOSE x \in S : \A y \in S : x <= y

\* patterns["game_start"]: None when neither search finds a start.
GameStart(sm) ==
    IF StartRuns(sm) # {} THEN sm[MinOf(StartRuns(sm)) - 2].timestamp
    ELSE IF FallbackStarts(sm) # {} THEN sm[MinOf(FallbackStarts(sm))].timestamp
    ELSE None

\* ------------------------------------------------------------ raw lookback
\* timestamp_to_raw_idx.get(timestamp, i): the last raw position with that timestamp.
RawIdx(raw, ts, k) ==
    LET js == {j \in 1..Len(raw) : raw[j].timestamp = ts}
    IN  IF js = {} THEN k ELSE CHOOSE j \in js : \A h \in js : h <= j

\* get_raw_max_before(player, end_idx): max raw percent over the lookback window
\* that ends just before position k, 0 when nothing positive is there.
RECURSIVE MaxPctOver(_, _, _, _)
MaxPctOver(raw, lo, hi, player) ==
    IF lo > hi THEN 0
    ELSE Max2(Or0(Pct(raw[hi], player)), MaxPctOver(raw, lo, hi - 1, player))

get_raw_max_before(raw, player, k) ==
    MaxPctOver(raw, Max2(1, k - lookback_frames), Min2(k - 1, Len(raw)), player)

\* ------------------------------------------------------------- detectors
\* Line 883: the reading is no lower than the confirmed count.
NotBelowConfirmedStrict(current_stocks, confirmed_stocks) == current_stocks > confirmed_stocks
NotBelowConfirmed(current_stocks, confirmed_stocks) == current_stocks >= confirmed_stocks

\* Line 916: how many of the following samples must hold the lower count.
RequiredPersistingOne(near_end_of_video) == 1
RequiredPersisting(near_end_of_video) == IF near_end_of_video THEN 1 ELSE 4

\* detect_stock_loss: the confirmed new stock count, or None.
detect_stock_loss(sm, k, player, confirmed_stocks, max_recent_percent, game_start_time) ==
    LET n == Len(sm)
        near_end_of_video == (k - 1) * 10 >= n * 9
        current_stocks == Stk(sm[k], player)
        time_into_game == sm[k].timestamp - game_start_time
        min_percent_required == IF time_into_game > Sec(20) THEN 50 ELSE 35
        prev_higher_count ==
            Cardinality({j \in 1..2 : /\ Stk(sm[k - j], player) # None
                                      /\ Stk(sm[k - j], player) >= confirmed_stocks})
        frames_to_check == Min2(5, n - k)
        persisting_low_stock ==
            Cardinality({j \in 1..frames_to_check :
                            /\ Stk(sm[k + j], player) # None
                            /\ Stk(sm[k + j], player) <= current_stocks})
        required_persisting == RequiredPersisting(near_end_of_video)
        percent_reset_confirmed ==
            \E j \in 1..Min2(4, n - k) :
                Pct(sm[k + j], player) # None /\ Pct(sm[k + j], player) < 15
    IN  IF k - 1 < 3 THEN None
        ELSE IF current_stocks = None THEN None
        ELSE IF NotBelowConfirmed(current_stocks, confirmed_stocks) THEN None
        ELSE IF max_recent_percent < min_percent_required THEN None
        ELSE IF max_recent_percent > 180 THEN None
        ELSE IF prev_higher_count < 2 THEN None
        ELSE IF near_end_of_video /\ current_stocks = 0
                /\ frames_to_check < required_persisting THEN 0
        ELSE IF persisting_low_stock < required_persisting
                /\ frames_to_check >= required_persisting THEN None
        ELSE IF current_stocks = 0 THEN 0
        ELSE IF ~percent_reset_confirmed THEN None
        ELSE current_stocks

\* detect_death_by_percent_reset: TRUE when the fallback reports a death.
detect_death_by_percent_reset(sm, k, player, max_recent_percent, prev_percent, current_percent) ==
    LET n == Len(sm)
        persist_count ==
            Cardinality({j \in 1..Min2(2, n - k) :
                            /\ Pct(sm[k + j], player) # None
                            /\ Pct(sm[k + j], player) <= 20})
    IN  /\ ~(k - 1 < 2 \/ k - 1 >= n - 2)
        /\ max_recent_percent >= 60
        /\ ~(current_percent = None \/ current_percent > 15)
        /\ ~(prev_percent # None /\ prev_percent < 30)
        /\ persist_count >= 1

\* verify_damage_spike: the elevated percent holds in one of the next 2 samples.
verify_damage_spike(sm, k, player, expected_percent) ==
    LET frames_to_check == Min2(2, Len(sm) - k)
        tolerance == 20
        persisting_count ==
            Cardinality({j \in 1..frames_to_check :
                            /\ Pct(sm[k + j], player) # None
                            /\ Pct(sm[k + j], player) >= expected_percent - tolerance})
    IN  frames_to_check >= 1 /\ persisting_count >= 1

\* verify_quick_damage: the damage built up within 5 s and was not traded back.
verify_quick_damage(sm, k, player, from_percent, to_percent) ==
    LET opponent == IF player = "p1" THEN "p2" ELSE "p1"
        damage_taken == to_percent - from_percent
        \* range(1, min(15, current_idx)): source offsets j with current_idx = k - 1
        back == {j \in 1..(Min2(15, k - 1) - 1) :
                    /\ Pct(sm[k - j], player) # None
                    /\ Pct(sm[k - j], player) <= from_percent + 5}
        start_idx == IF back = {} THEN k ELSE k - MinOf(back)
        span == sm[k].timestamp - sm[start_idx].timestamp
        delta(j) == Max2(0, Or0(Pct(sm[j], opponent)) - Or0(Pct(sm[j - 1], opponent)))
        dealt[j \in (start_idx - 1)..k] ==
            IF j < start_idx THEN 0
            ELSE dealt[j - 1] + (IF j > 1 /\ delta(j) < 60 THEN delta(j) ELSE 0)
        damage_dealt_back == dealt[k]
    IN  IF k - 1 < 1 THEN TRUE
        ELSE IF damage_taken < 20 THEN FALSE
        ELSE IF span > Sec(5) THEN FALSE
        ELSE IF damage_dealt_back * 10 > damage_taken * 3 THEN FALSE
        ELSE TRUE

\* ------------------------------------------------------------ game phases
RECURSIVE Pow2(_)
Pow2(e) == IF e = 0 THEN 1 ELSE 2 * Pow2(e - 1)

\* round(x, 1) of the accumulator value num / 2^halvings, in tenths: the nearest
\* tenth, a tie going to the even one.
RoundTenths(num, halvings) ==
    LET unit == Pow2(halvings)
        scaled == (num % unit) * 10
        q == scaled \div unit
        r == scaled % unit
        up == 2 * r > unit \/ (2 * r = unit /\ q % 2 = 1)
    IN  (num \div unit) * 10 + q + (IF up THEN 1 ELSE 0)

\* Lines 1025-1029, 1123-1126: a rise of the percent against the previous sample,
\* capped at 60; a fall counts as 0.
CappedRise(pct, prev) == IF pct >= prev THEN Min2(Max2(0, pct - prev), 60) ELSE 0

\* Line 1003: the timestamps of the stock losses the timeline holds.
DeathTimes(losses) == {losses[j].timestamp : j \in 1..Len(losses)}

\* Line 1035: a new label takes over only from a phase that has lasted 1 s.
LongEnoughAlways(ts, phase_start) == TRUE
LongEnough(ts, phase_start) == ts - phase_start >= Sec(1)

PhaseRecord(s, end) ==
    [start |-> s.phase_start, end |-> end, phase |-> s.current_phase,
     damage_dealt |-> RoundTenths(s.dealt, s.halvings),
     damage_taken |-> RoundTenths(s.taken, s.halvings)]

\* Lines 1016-1054: one sample of the segmentation loop.  The accumulators are
\* halved once per sample after 3 s in a phase; they are kept as dealt / 2^halvings
\* and taken / 2^halvings.
PhaseStep(s, state, death_times, game_start_time) ==
    LET ts == state.timestamp
        p1_pct == Or0(state.p1_percent)
        p2_pct == Or0(state.p2_percent)
        unit == Pow2(s.halvings)
        dealt == s.dealt + CappedRise(p2_pct, s.prev_p2) * unit
        taken == s.taken + CappedRise(p1_pct, s.prev_p1) * unit
        in_after_death == \E dt \in death_times : 0 <= ts - dt /\ ts - dt <= Sec(5)
        new_phase == IF in_after_death THEN "after_death"
                     ELSE IF dealt > taken + 10 * unit THEN "advantage"
                     ELSE IF taken > dealt + 10 * unit THEN "disadvantage"
                     ELSE "neutral"
        summed == [s EXCEPT !.dealt = dealt, !.taken = taken]
        moved == IF new_phase # s.current_phase /\ LongEnough(ts, s.phase_start)
                 THEN [summed EXCEPT !.phases = Append(@, PhaseRecord(summed, ts)),
                                     !.current_phase = new_phase, !.phase_start = ts,
                                     !.dealt = 0, !.taken = 0, !.halvings = 0]
                 ELSE summed
        halved == IF ts - moved.phase_start > Sec(3)
                  THEN [moved EXCEPT !.halvings = @ + 1] ELSE moved
    IN  IF ts < game_start_time THEN s
        ELSE [halved EXCEPT !.prev_p1 = p1_pct, !.prev_p2 = p2_pct]

\* _compute_game_phases: the phases of the match, the last one closed at the last
\* sample.
_compute_game_phases(sm, losses, game_start_time) ==
    LET walk[k \in 0..Len(sm)] ==
            IF k = 0
            THEN [phases |-> <<>>, current_phase |-> "neutral",
                  phase_start |-> game_start_time, dealt |-> 0, taken |-> 0,
                  halvings |-> 0, prev_p1 |-> 0, prev_p2 |-> 0]
            ELSE PhaseStep(walk[k - 1], sm[k], DeathTimes(losses), game_start_time)
        s == walk[Len(sm)]
        final_ts == sm[Len(sm)].timestamp
    IN  IF Len(sm) < 3 THEN <<>>
        ELSE IF final_ts > s.phase_start THEN Append(s.phases, PhaseRecord(s, final_ts))
        ELSE s.phases

\* Lines 1098-1148: what happened in the window from 0.5 s to 5 s after one stock
\* loss.  The samples are in time order, so the sample before an in-window sample
\* is the one the loop saw last.
AfterDeath(sm, sl) ==
    LET death_ts == sl.timestamp
        inside == {k \in 2..Len(sm) : /\ 2 * sm[k].timestamp >= 2 * death_ts + Sec(1)
                                      /\ sm[k].timestamp <= death_ts + Sec(5)}
        dt(k) == CappedRise(Or0(sm[k].p1_percent), Or0(sm[k - 1].p1_percent))
        dd(k) == CappedRise(Or0(sm[k].p2_percent), Or0(sm[k - 1].p2_percent))
        sums[k \in 0..Len(sm)] ==
            IF k = 0 THEN [taken |-> 0, dealt |-> 0]
            ELSE IF k \in inside
            THEN [taken |-> sums[k - 1].taken + dt(k), dealt |-> sums[k - 1].dealt + dd(k)]
            ELSE sums[k - 1]
        dmg_taken == sums[Len(sm)].taken
        dmg_dealt == sums[Len(sm)].dealt
        interactions == {k \in inside : dt(k) > 3 \/ dd(k) > 3}
    IN  [death_timestamp |-> death_ts,
         damage_taken |-> dmg_taken, damage_dealt |-> dmg_dealt,
         time_to_first_interaction |->
             IF interactions = {} THEN None
             ELSE sm[MinOf(interactions)].timestamp - death_ts,
         behavior |-> IF dmg_taken > 25 /\ dmg_dealt < 10 THEN "panic"
                      ELSE IF dmg_dealt > dmg_taken + 10 THEN "aggressive"
                      ELSE IF dmg_taken < 10 /\ dmg_dealt < 10 THEN "composed"
                      ELSE "neutral",
         stocks_remaining |-> sl.stocks_remaining]

\* _compute_after_death_phases: one entry per stock loss that leaves a stock.
RECURSIVE AfterDeathFrom(_, _, _)
AfterDeathFrom(sm, losses, j) ==
    IF j > Len(losses) THEN <<>>
    ELSE (IF losses[j].stocks_remaining = 0 THEN <<>> ELSE <<AfterDeath(sm, losses[j])>>)
         \o AfterDeathFrom(sm, losses, j + 1)

_compute_after_death_phases(sm, losses) ==
    IF losses = <<>> \/ sm = <<>> THEN <<>> ELSE AfterDeathFrom(sm, losses, 1)

\* ----------------------------------------------------------- stage control
\* Lines 1177-1189: the per-sample damage of a player against the previous smoothed
\* sample, 0 for the first sample and for samples before the start.
StageDelta(sm, k, player, game_start_time) ==
    IF k = 1 \/ sm[k].timestamp < game_start_time THEN 0
    ELSE LET p == Or0(Pct(sm[k], player))
             pp == Or0(Pct(sm[k - 1], player))
         IN  IF p >= pp THEN Min2(60, Max2(0, p - pp)) ELSE 0

\* Lines 1199-1204: the deltas of the samples stamped within [lo, hi], summed.
WindowSum(sm, player, game_start_time, lo, hi) ==
    LET acc[k \in 0..Len(sm)] ==
            IF k = 0 THEN 0
            ELSE acc[k - 1] + (IF lo <= sm[k].timestamp /\ sm[k].timestamp <= hi
                               THEN StageDelta(sm, k, player, game_start_time) ELSE 0)
    IN  acc[Len(sm)]

\* _compute_stage_control: a snapshot every second from the start to the last
\* sample, each over the 3 s before it.
_compute_stage_control(sm, game_start_time) ==
    IF Len(sm) < 3 THEN <<>>
    ELSE LET start_ts == Max2(game_start_time, sm[1].timestamp)
             end_ts == sm[Len(sm)].timestamp
             count == IF start_ts > end_ts THEN 0 ELSE (end_ts - start_ts) \div Sec(1) + 1
         IN  [j \in 1..count |->
                LET sample_ts == start_ts + (j - 1) * Sec(1)
                    window_dealt == WindowSum(sm, "p2", game_start_time,
                                              sample_ts - Sec(3), sample_ts)
                    window_taken == WindowSum(sm, "p1", game_start_time,
                                              sample_ts - Sec(3), sample_ts)
                IN  [timestamp |-> sample_ts, damage_dealt |-> window_dealt,
                     damage_taken |-> window_taken,
                     control_score |-> window_dealt - window_taken]]

\* ------------------------------------------------------------ deduplicator
\* Stock events carry: timestamp, percent, stocks_remaining and synthesized
\* (is_game_ender / is_game_winner).  Kills use the same fields for the source's
\* opponent_percent and opponent_stocks_remaining.
RECURSIVE InsertByTime(_, _)
InsertByTime(sorted, e) ==
    IF sorted = <<>> THEN <<e>>
    ELSE IF sorted[Len(sorted)].timestamp <= e.timestamp THEN Append(sorted, e)
    ELSE Append(InsertByTime(SubSeq(sorted, 1, Len(sorted) - 1), e), sorted[Len(sorted)])

\* sorted(events, key=timestamp): stable.
RECURSIVE SortByTime(_)
SortByTime(events) ==
    IF events = <<>> THEN <<>>
    ELSE InsertByTime(SortByTime(SubSeq(events, 1, Len(events) - 1)), events[Len(events)])

\* The loop of lines 653-667 over the sorted events, from position k on.
RECURSIVE DedupFrom(_, _, _, _)
DedupFrom(sorted, k, kept, last_timestamp) ==
    IF k > Len(sorted) THEN kept
    ELSE LET event == sorted[k]
             ts == event.timestamp
         IN  IF event.stocks_remaining = 0
             THEN DedupFrom(sorted, k + 1, Append(kept, event), Max2(ts, last_timestamp))
             ELSE IF ts - last_timestamp > Sec(time_window)
             THEN DedupFrom(sorted, k + 1, Append(kept, event), ts)
             ELSE DedupFrom(sorted, k + 1, kept, last_timestamp)

\* The same loop with final-stock events held to the window like the others.
RECURSIVE DedupFromNoFinal(_, _, _, _)
DedupFromNoFinal(sorted, k, kept, last_timestamp) ==
    IF k > Len(sorted) THEN kept
    ELSE LET event == sorted[k]
             ts == event.timestamp
         IN  IF ts - last_timestamp > Sec(time_window)
             THEN DedupFromNoFinal(sorted, k + 1, Append(kept, event), ts)
             ELSE DedupFromNoFinal(sorted, k + 1, kept, last_timestamp)

\* The same loop measuring the window from the last event seen, kept or not.
RECURSIVE DedupFromSliding(_, _, _, _)
DedupFromSliding(sorted, k, kept, last_timestamp) ==
    IF k > Len(sorted) THEN kept
    ELSE LET event == sorted[k]
             ts == event.timestamp
         IN  IF event.stocks_remaining = 0 \/ ts - last_timestamp > Sec(time_window)
             THEN DedupFromSliding(sorted, k + 1, Append(kept, event), ts)
             ELSE DedupFromSliding(sorted, k + 1, kept, ts)

DedupLoopNoFinal(sorted) == DedupFromNoFinal(sorted, 1, <<>>, Sec(-999))
DedupLoopSliding(sorted) == DedupFromSliding(sorted, 1, <<>>, Sec(-999))
DedupLoop(sorted) == DedupFrom(sorted, 1, <<>>, Sec(-999))

_deduplicate_events(events) ==
    IF events = <<>> THEN events ELSE DedupLoop(SortByTime(events))

\* ------------------------------------------------------------------ state
VARIABLES
    game_states,            \* the caller's raw sample list
    smoothed_states,
    pc,                     \* "smooth", "start", "loop", "dedup", "done"
    i,                      \* position of the main pass (1-based)
    game_start_time, game_start, game_end,
    prev_p1_percent, prev_p2_percent,
    confirmed_p1_stocks, confirmed_p2_stocks,
    game_over,
    combo_start, combo_damage, combo_hits, combo_from_percent, combo_end_percent,
    p1_max_recent_percent, p2_max_recent_percent,
    prev_timestamp,
    stock_losses, kills, damage_spikes, damage_dealt, combos,
    edgeguards, got_edgeguarded, recovery_moments, momentum_swings, long_neutral,
    neutral_start, neutral_start_p1, neutral_start_p2,
    global_p1_max, global_p2_max,
    game_phases, after_death_phases, stage_control_timeline,
    vision,                 \* what the offstage classifier call met, "idle" before it
    pre_dedup,              \* history: <<stock_losses, kills>> as the deduplicator received them
    run,                    \* which call of find_patterns on this input is running
    first                   \* history: the timeline the first call returned

tracker == <<prev_p1_percent, prev_p2_percent, confirmed_p1_stocks, confirmed_p2_stocks,
             game_over, p1_max_recent_percent, p2_max_recent_percent>>
combo == <<combo_start, combo_damage, combo_hits, combo_from_percent, combo_end_percent,
           prev_timestamp>>
events == <<stock_losses, kills, damage_spikes, damage_dealt, combos, game_end>>
plays == <<edgeguards, got_edgeguarded, recovery_moments, momentum_swings, long_neutral>>
neutral == <<neutral_start, neutral_start_p1, neutral_start_p2>>
global == <<global_p1_max, global_p2_max>>
post == <<game_phases, after_death_phases, stage_control_timeline>>
caller == <<vision>>
history == <<pre_dedup, run, first>>
vars == <<game_states, smoothed_states, pc, i, game_start_time, game_start,
          tracker, combo, events, plays, neutral, global, post, caller, history>>

\* ------------------------------------------------------------ main pass
\* Lines 311-312, 327-328, 353-354, 370-371: a death that leaves 0 stocks ends the match.
EndsMatchNever(died, stocks_left) == FALSE
EndsMatch(died, stocks_left) == died /\ stocks_left = 0

\* Lines 301, 318: the raw lookback maximum, the tracker's maximum when that is 0.
ActualPercentTracker(raw_max, max_recent) == max_recent
ActualPercent(raw_max, max_recent) == IF raw_max > 0 THEN raw_max ELSE max_recent

\* Lines 386, 404: how far into the stream the end-of-stream synthesis starts.
NearStreamEndLastTenth(k, n) == (k - 1) * 10 >= n * 9
NearStreamEnd(k, n) == (k - 1) * 4 >= n * 3

\* One player's stock tracking at position k (lines 286-328 for p1, 330-371 for p2).
StockStep(player, k, confirmed, max_recent, prev_percent, percent, list) ==
    LET ts == smoothed_states[k].timestamp
        stock_loss_detected ==
            detect_stock_loss(smoothed_states, k, player, confirmed, max_recent, game_start_time)
        percent_reset_death ==
            detect_death_by_percent_reset(smoothed_states, k, player, max_recent,
                                          prev_percent, percent)
        raw_max == get_raw_max_before(game_states, player, RawIdx(game_states, ts, k))
        actual_percent == ActualPercent(raw_max, max_recent)
        new_stocks == IF stock_loss_detected # None THEN stock_loss_detected
                      ELSE Max2(0, confirmed - 1)
    IN  IF stock_loss_detected # None \/ percent_reset_death
        THEN [confirmed |-> new_stocks, max_recent |-> 0, prev |-> 0,
              list |-> Append(list, [timestamp |-> ts, percent |-> actual_percent,
                                     stocks_remaining |-> new_stocks,
                                     synthesized |-> FALSE]),
              died |-> TRUE]
        ELSE [confirmed |-> confirmed, max_recent |-> max_recent, prev |-> prev_percent,
              list |-> list, died |-> FALSE]

\* End-of-stream synthesis for one player (lines 383-397, 401-413).
SynthesizeFinal(player, k, prev_percent, list) ==
    LET ts == smoothed_states[k].timestamp
        recent == {j \in 1..Len(list) : list[j].timestamp >= ts - Sec(2)}
    IN  /\ prev_percent # None /\ prev_percent >= 60
        /\ Pct(smoothed_states[k], player) = None
        /\ NearStreamEnd(k, Len(smoothed_states))
        /\ recent = {}

\* A spike of one player at position k (lines 155-170, 174-185).
SpikeEvent(ts, damage, from_percent, to_percent) ==
    [timestamp |-> ts, damage |-> damage, from_percent |-> from_percent,
     to_percent |-> to_percent]

ComboEvent(to_percent) ==
    [start |-> combo_start,
     end |-> IF prev_timestamp # None THEN prev_timestamp ELSE smoothed_states[i].timestamp,
     damage |-> Min2(combo_damage, 100),
     from_percent |-> combo_from_percent,
     to_percent |-> to_percent,
     hits |-> combo_hits]

\* The bar a flushed accumulator must clear to be emitted.
ComboBar(hits, damage) == hits >= 3 /\ damage > 25
ComboBarTwoHits(hits, damage) == hits >= 2 /\ damage > 15
ComboValid(hits, damage) == ComboBar(hits, damage)

\* Combo tracking at the current sample (lines 192-277): the new accumulator and list.
ComboStep(ts, p1_damage_taken, p2_damage_taken, p2_percent) ==
    LET capped == IF p2_damage_taken > 0 THEN Min2(p2_damage_taken, 60) ELSE 0
        you_got_hit == p1_damage_taken > 5
        valid == ComboValid(combo_hits, combo_damage)
        cleared == [start |-> None, damage |-> 0, hits |-> 0, from_percent |-> 0,
                    end_percent |-> 0]
        fresh == LET f == IF Truthy(prev_p2_percent) THEN prev_p2_percent ELSE 0
                 IN  [start |-> ts, damage |-> capped, hits |-> 1, from_percent |-> f,
                      end_percent |-> IF Truthy(p2_percent) THEN p2_percent ELSE f + capped]
        keep == [start |-> combo_start, damage |-> combo_damage, hits |-> combo_hits,
                 from_percent |-> combo_from_percent, end_percent |-> combo_end_percent]
        end_or_prev == IF Truthy(combo_end_percent) THEN combo_end_percent
                       ELSE prev_p2_percent
    IN  IF capped > 8 THEN
            IF you_got_hit THEN
                [acc |-> cleared,
                 list |-> IF Truthy(combo_start) /\ valid
                          THEN Append(combos, ComboEvent(
                                  IF Truthy(prev_p2_percent) THEN prev_p2_percent
                                  ELSE combo_from_percent + combo_damage))
                          ELSE combos]
            ELSE IF combo_start = None THEN [acc |-> fresh, list |-> combos]
            ELSE IF ts - combo_start > Sec(5) THEN
                [acc |-> fresh,
                 list |-> IF valid THEN Append(combos, ComboEvent(combo_end_percent))
                          ELSE combos]
            ELSE [acc |-> [start |-> combo_start,
                           damage |-> combo_damage + capped,
                           hits |-> combo_hits + 1,
                           from_percent |-> combo_from_percent,
                           end_percent |-> IF Truthy(p2_percent) THEN p2_percent
                                           ELSE combo_end_percent + capped],
                  list |-> combos]
        ELSE IF you_got_hit THEN
            [acc |-> cleared,
             list |-> IF Truthy(combo_start) /\ valid
                      THEN Append(combos, ComboEvent(end_or_prev)) ELSE combos]
        ELSE IF Truthy(combo_start) /\ ts - combo_start > Sec(3) THEN
            [acc |-> cleared,
             list |-> IF valid THEN Append(combos, ComboEvent(end_or_prev)) ELSE combos]
        ELSE [acc |-> keep, list |-> combos]

\* The summed rises of a player's smoothed percent over the `back` samples before
\* position k (lines 426-441, 490-504): source j in range(max(0, i - back), i), j > 0.
RECURSIVE RisesFrom(_, _, _)
RisesFrom(player, lo, hi) ==
    IF lo > hi THEN 0
    ELSE (IF hi > 1
          THEN Max2(0, Or0(Pct(smoothed_states[hi], player))
                       - Or0(Pct(smoothed_states[hi - 1], player)))
          ELSE 0)
         + RisesFrom(player, lo, hi - 1)

RisesIn(player, k, back) == RisesFrom(player, Max2(1, k - back), k - 1)

Score(a, b, c, d) ==
    (IF a THEN 1 ELSE 0) + (IF b THEN 1 ELSE 0) + (IF c THEN 1 ELSE 0) + (IF d THEN 1 ELSE 0)

\* Lines 420-472: a kill scored as an edgeguard.
EdgeguardStep(k, ts, kill_percent) ==
    LET your_damage_during_kill == RisesIn("p1", k, 10)
        damage_dealt_before_kill == RisesIn("p2", k, 15)
        edgeguard_score ==
            Score(50 <= kill_percent /\ kill_percent <= 145,
                  damage_dealt_before_kill < 30,
                  your_damage_during_kill <= 15,
                  your_damage_during_kill < 5)
    IN  IF edgeguard_score >= 3
        THEN Append(edgeguards,
                    [timestamp |-> ts, opponent_percent |-> kill_percent,
                     your_damage_taken |-> your_damage_during_kill,
                     damage_dealt_before |-> damage_dealt_before_kill,
                     is_likely_edgeguard |-> edgeguard_score >= 4,
                     confidence |-> edgeguard_score])
        ELSE edgeguards

\* Lines 488-532: the player's death scored as an edgeguard by the opponent.
GotEdgeguardedStep(k, ts, death_pct) ==
    LET opp_damage_during_your_death == RisesIn("p2", k, 10)
        damage_taken_before_death == RisesIn("p1", k, 10)
        edgeguard_score ==
            Score(50 <= death_pct /\ death_pct <= 145,
                  opp_damage_during_your_death < 15,
                  damage_taken_before_death < 30,
                  opp_damage_during_your_death < 5)
    IN  IF edgeguard_score >= 3
        THEN Append(got_edgeguarded,
                    [timestamp |-> ts, your_death_percent |-> death_pct,
                     opponent_damage_taken |-> opp_damage_during_your_death,
                     damage_you_took_before |-> damage_taken_before_death,
                     confidence |-> edgeguard_score])
        ELSE got_edgeguarded

\* Lines 534-552: one momentum event per 5 s at most.
MomentumStep(ts, p1_damage_taken, p2_damage_taken) ==
    LET spaced == \/ momentum_swings = <<>>
                  \/ ts - momentum_swings[Len(momentum_swings)].timestamp > Sec(5)
        swing(type) == [timestamp |-> ts, type |-> type,
                        damage_dealt |-> p2_damage_taken, damage_taken |-> p1_damage_taken]
    IN  IF p2_damage_taken > 10 /\ p1_damage_taken < 5
        THEN (IF spaced THEN Append(momentum_swings, swing("advantage"))
              ELSE momentum_swings)
        ELSE IF p1_damage_taken > 20 /\ p2_damage_taken < 5
        THEN (IF spaced THEN Append(momentum_swings, swing("disadvantage"))
              ELSE momentum_swings)
        ELSE momentum_swings

Abs(x) == IF x < 0 THEN -x ELSE x

\* Lines 554-609: the neutral tracker and the long_neutral list after this sample.
NeutralStep(k, ts, p1_percent, p2_percent, p1_damage_taken, p2_damage_taken, losses, ko) ==
    LET total_damage == p1_damage_taken + p2_damage_taken
        is_respawn_period == p1_percent < 5 \/ p2_percent < 5
        recent_stock_loss ==
            \/ \E j \in 1..Len(losses) : Abs(ts - losses[j].timestamp) < Sec(10)
            \/ \E j \in 1..Len(ko) : Abs(ts - ko[j].timestamp) < Sec(10)
        rose(player, j) ==
            Or0(Pct(smoothed_states[j], player)) > Or0(Pct(smoothed_states[j - 1], player)) + 3
        recent_damage ==
            \E j \in Max2(1, k - 5)..(k - 1) : j > 1 /\ (rose("p1", j) \/ rose("p2", j))
        p1_moved == Abs(p1_percent - neutral_start_p1) > 2
        p2_moved == Abs(p2_percent - neutral_start_p2) > 2
    IN  IF total_damage < 3 /\ ~is_respawn_period /\ ~recent_stock_loss /\ ~recent_damage
        THEN IF neutral_start = None
             THEN [start |-> ts, p1 |-> p1_percent, p2 |-> p2_percent, list |-> long_neutral]
             ELSE [start |-> neutral_start, p1 |-> neutral_start_p1,
                   p2 |-> neutral_start_p2, list |-> long_neutral]
        ELSE [start |-> None, p1 |-> 0, p2 |-> 0,
              list |-> IF /\ Truthy(neutral_start) /\ ts - neutral_start > Sec(6)
                          /\ (p1_moved \/ p2_moved)
                       THEN Append(long_neutral,
                                   [start |-> neutral_start, end |-> ts,
                                    duration |-> ts - neutral_start])
                       ELSE long_neutral]

\* ------------------------------------------------------------- operations
Sample(t, a, b, c, d) ==
    [timestamp |-> t, p1_percent |-> a, p2_percent |-> b, p1_stocks |-> c, p2_stocks |-> d]

\* The locals of find_patterns before the first sample is read (lines 5-19, 88-109),
\* the two stock event lists apart.
FreshLocals ==
    /\ smoothed_states = <<>>
    /\ i = 0
    /\ game_start_time = 0 /\ game_start = None /\ game_end = None
    /\ prev_p1_percent = 0 /\ prev_p2_percent = 0
    /\ confirmed_p1_stocks = 3 /\ confirmed_p2_stocks = 3
    /\ game_over = FALSE
    /\ combo_start = None /\ combo_damage = 0 /\ combo_hits = 0
    /\ combo_from_percent = 0 /\ combo_end_percent = 0
    /\ p1_max_recent_percent = 0 /\ p2_max_recent_percent = 0
    /\ prev_timestamp = None
    /\ damage_spikes = <<>> /\ damage_dealt = <<>> /\ combos = <<>>
    /\ edgeguards = <<>> /\ got_edgeguarded = <<>> /\ recovery_moments = <<>>
    /\ momentum_swings = <<>> /\ long_neutral = <<>>
    /\ neutral_start = None /\ neutral_start_p1 = 0 /\ neutral_start_p2 = 0
    /\ global_p1_max = 0 /\ global_p2_max = 0
    /\ game_phases = <<>> /\ after_death_phases = <<>>
    /\ stage_control_timeline = <<>>
    /\ pre_dedup = <<>>

Fresh == FreshLocals /\ stock_losses = <<>> /\ kills = <<>>

\* The same for the primed variables: what a new call starts from.
FreshAgain ==
    /\ smoothed_states' = <<>>
    /\ i' = 0
    /\ game_start_time' = 0 /\ game_start' = None /\ game_end' = None
    /\ prev_p1_percent' = 0 /\ prev_p2_percent' = 0
    /\ confirmed_p1_stocks' = 3 /\ confirmed_p2_stocks' = 3
    /\ game_over' = FALSE
    /\ combo_start' = None /\ combo_damage' = 0 /\ combo_hits' = 0
    /\ combo_from_percent' = 0 /\ combo_end_percent' = 0
    /\ p1_max_recent_percent' = 0 /\ p2_max_recent_percent' = 0
    /\ prev_timestamp' = None
    /\ stock_losses' = <<>> /\ kills' = <<>> /\ damage_spikes' = <<>>
    /\ damage_dealt' = <<>> /\ combos' = <<>>
    /\ edgeguards' = <<>> /\ got_edgeguarded' = <<>> /\ recovery_moments' = <<>>
    /\ momentum_swings' = <<>> /\ long_neutral' = <<>>
    /\ neutral_start' = None /\ neutral_start_p1' = 0 /\ neutral_start_p2' = 0
    /\ global_p1_max' = 0 /\ global_p2_max' = 0
    /\ game_phases' = <<>> /\ after_death_phases' = <<>>
    /\ stage_control_timeline' = <<>>
    /\ pre_dedup' = <<>>

\* Line 684: smoothing writes into a copy of each record, never into the input.
InputAfterSmoothingInPlace(states) == smooth_game_states(states)
InputAfterSmoothing(states) == states

\* What a call returns (the fields modelled here).
Timeline ==
    [stock_losses |-> stock_losses, kills |-> kills, damage_spikes |-> damage_spikes,
     damage_dealt |-> damage_dealt, combos |-> combos,
     edgeguards |-> edgeguards, got_edgeguarded |-> got_edgeguarded,
     recovery_moments |-> recovery_moments, momentum_swings |-> momentum_swings,
     long_neutral |-> long_neutral,
     p1_true_max_percent |-> global_p1_max, p2_true_max_percent |-> global_p2_max,
     game_phases |-> game_phases, after_death_phases |-> after_death_phases,
     stage_control_timeline |-> stage_control_timeline,
     game_start |-> game_start, game_end |-> game_end]

\* Lines 21-42: the early return on fewer than 2 samples, else the smoothing pre-pass.
Smooth ==
    /\ pc = "smooth"
    /\ IF Len(game_states) < 2
       THEN pc' = "done" /\ UNCHANGED <<smoothed_states, game_states>>
       ELSE /\ pc' = "start"
            /\ smoothed_states' = smooth_game_states(game_states)
            /\ game_states' = InputAfterSmoothing(game_states)
    /\ UNCHANGED <<i, game_start_time, game_start, tracker, combo, events, plays, neutral,
                   global, post, caller, history>>

\* Lines 44-86: the clean-start run, else the first gameplay-like sample after 5 s.
DetectStart ==
    /\ pc = "start"
    /\ game_start' = GameStart(smoothed_states)
    /\ game_start_time' = Or0(GameStart(smoothed_states))
    /\ i' = 1
    /\ pc' = "loop"
    /\ UNCHANGED <<game_states, smoothed_states, tracker, combo, events, plays, neutral,
                   global, post, caller, history>>

\* Lines 111-612: the loop body at position i.
ProcessSample ==
    /\ pc = "loop"
    /\ i' = i + 1
    /\ pc' = IF i = Len(smoothed_states) THEN "dedup" ELSE "loop"
    /\ UNCHANGED <<game_states, smoothed_states, game_start_time, game_start, post, caller,
                   history>>
    /\ LET state == smoothed_states[i]
           timestamp == state.timestamp
       IN
       IF timestamp < game_start_time
       THEN UNCHANGED <<tracker, combo, events, plays, neutral, global>>
       ELSE
       LET p1_percent == IF state.p1_percent = None THEN prev_p1_percent ELSE state.p1_percent
           p2_percent == IF state.p2_percent = None THEN prev_p2_percent ELSE state.p2_percent
           raw_idx == RawIdx(game_states, timestamp, i)
           p1_max == Max2(Max2(p1_max_recent_percent, Or0(game_states[raw_idx].p1_percent)),
                          p1_percent)
           p2_max == Max2(Max2(p2_max_recent_percent, Or0(game_states[raw_idx].p2_percent)),
                          p2_percent)
           p1_damage_taken == Max2(0, p1_percent - prev_p1_percent)
           p2_damage_taken == Max2(0, p2_percent - prev_p2_percent)
           took_spike ==
               /\ p1_damage_taken >= 20 /\ p1_damage_taken <= 80
               /\ p1_percent > prev_p1_percent
               /\ p1_percent <= 180 /\ prev_p1_percent <= 180
               /\ ~(prev_p1_percent = 0 /\ p1_percent > 60)
               /\ verify_damage_spike(smoothed_states, i, "p1", p1_percent)
               /\ verify_quick_damage(smoothed_states, i, "p1", prev_p1_percent, p1_percent)
           dealt_spike ==
               /\ p2_damage_taken >= 15 /\ p2_damage_taken <= 80
               /\ p2_percent > prev_p2_percent
               /\ p2_percent <= 200 /\ prev_p2_percent <= 200
               /\ ~(prev_p2_percent = 0 /\ p2_percent > 60)
               /\ verify_damage_spike(smoothed_states, i, "p2", p2_percent)
       IN
       \E c \in {ComboStep(timestamp, p1_damage_taken, p2_damage_taken, p2_percent)},
          r1 \in {StockStep("p1", i, confirmed_p1_stocks, p1_max, prev_p1_percent,
                            p1_percent, stock_losses)},
          r2 \in {StockStep("p2", i, confirmed_p2_stocks, p2_max, prev_p2_percent,
                            p2_percent, kills)} :
       LET over == EndsMatch(r1.died, r1.confirmed) \/ EndsMatch(r2.died, r2.confirmed)
           synth1 == ~over /\ SynthesizeFinal("p1", i, r1.prev, r1.list)
           synth2 == ~over /\ ~synth1 /\ SynthesizeFinal("p2", i, r2.prev, r2.list)
           final(prev) == [timestamp |-> timestamp, percent |-> prev,
                           stocks_remaining |-> 0, synthesized |-> TRUE]
       IN
       /\ damage_spikes' =
             IF took_spike
             THEN Append(damage_spikes,
                         SpikeEvent(timestamp, p1_damage_taken, prev_p1_percent, p1_percent))
             ELSE damage_spikes
       /\ damage_dealt' =
             IF dealt_spike
             THEN Append(damage_dealt,
                         SpikeEvent(timestamp, p2_damage_taken, prev_p2_percent, p2_percent))
             ELSE damage_dealt
       /\ combos' = c.list
       /\ combo_start' = c.acc.start
       /\ combo_damage' = c.acc.damage
       /\ combo_hits' = c.acc.hits
       /\ combo_from_percent' = c.acc.from_percent
       /\ combo_end_percent' = c.acc.end_percent
       /\ prev_timestamp' = timestamp
       /\ global_p1_max' = Max2(global_p1_max, p1_percent)
       /\ global_p2_max' = Max2(global_p2_max, p2_percent)
       /\ IF game_over
          THEN \* line 283: nothing below the check runs once the match is over
               /\ p1_max_recent_percent' = p1_max
               /\ p2_max_recent_percent' = p2_max
               /\ UNCHANGED <<prev_p1_percent, prev_p2_percent, confirmed_p1_stocks,
                              confirmed_p2_stocks, game_over, stock_losses, kills, game_end,
                              plays, neutral>>
          ELSE /\ confirmed_p1_stocks' = r1.confirmed
               /\ confirmed_p2_stocks' = r2.confirmed
               /\ p1_max_recent_percent' = r1.max_recent
               /\ p2_max_recent_percent' = r2.max_recent
               /\ stock_losses' = IF synth1 THEN Append(r1.list, final(r1.prev)) ELSE r1.list
               /\ kills' = IF synth2 THEN Append(r2.list, final(r2.prev)) ELSE r2.list
               /\ game_over' = (over \/ synth1 \/ synth2)
               /\ game_end' = IF over \/ synth1 \/ synth2 THEN timestamp ELSE game_end
               /\ edgeguards' = IF r2.died THEN EdgeguardStep(i, timestamp, p2_max)
                                 ELSE edgeguards
               /\ recovery_moments' =
                     IF r1.died
                     THEN Append(recovery_moments,
                                 [timestamp |-> timestamp, death_percent |-> p1_max,
                                  stocks_remaining |-> r1.confirmed])
                     ELSE recovery_moments
               /\ got_edgeguarded' = IF r1.died THEN GotEdgeguardedStep(i, timestamp, p1_max)
                                      ELSE got_edgeguarded
               /\ momentum_swings' = MomentumStep(timestamp, p1_damage_taken, p2_damage_taken)
               /\ \E nt \in {NeutralStep(i, timestamp, p1_percent, p2_percent,
                                          p1_damage_taken, p2_damage_taken,
                                          stock_losses', kills')} :
                     /\ long_neutral' = nt.list
                     /\ neutral_start' = nt.start
                     /\ neutral_start_p1' = nt.p1
                     /\ neutral_start_p2' = nt.p2
               /\ prev_p1_percent' = p1_percent
               /\ prev_p2_percent' = p2_percent

\* Lines 614-636: one event per stock loss, the final one always kept; then the
\* phases, the after-death windows and the stage-control timeline over the
\* smoothed samples and the deduplicated stock losses.
Deduplicate ==
    /\ pc = "dedup"
    /\ stock_losses' = _deduplicate_events(stock_losses)
    /\ kills' = _deduplicate_events(kills)
    /\ game_phases' = _compute_game_phases(smoothed_states, stock_losses', game_start_time)
    /\ after_death_phases' = _compute_after_death_phases(smoothed_states, stock_losses')
    /\ stage_control_timeline' = _compute_stage_control(smoothed_states, game_start_time)
    /\ pre_dedup' = <<stock_losses, kills>>
    /\ pc' = "done"
    /\ UNCHANGED <<game_states, smoothed_states, i, game_start_time, game_start, tracker,
                   combo, damage_spikes, damage_dealt, combos, game_end, plays, neutral,
                   global, caller, run, first>>

\* The caller runs find_patterns once more on the same sample list.
CallAgain ==
    /\ pc = "done" /\ run = 1
    /\ first' = Timeline
    /\ run' = 2
    /\ pc' = "smooth"
    /\ FreshAgain
    /\ UNCHANGED <<game_states, caller>>

\* coaching.py 970-983: the two players exchanged in every sample.
_swap_game_states(states) ==
    [k \in 1..Len(states) |->
        [timestamp  |-> states[k].timestamp,
         p1_percent |-> states[k].p2_percent, p2_percent |-> states[k].p1_percent,
         p1_stocks  |-> states[k].p2_stocks,  p2_stocks  |-> states[k].p1_stocks]]

\* The same recording analyzed for the other player (you_are_p1 false, coaching.py
\* 1007-1009): find_patterns runs on the swapped sample list.
CallSwapped ==
    /\ pc = "done" /\ run = 1
    /\ first' = Timeline
    /\ run' = 2
    /\ pc' = "smooth"
    /\ FreshAgain
    /\ game_states' = _swap_game_states(game_states)
    /\ UNCHANGED caller

\* classify_death_context answers each candidate death: no frames could be read, the
\* vision request failed (every frame "unknown"), or the victim was classified.
Verdicts == {"no_frames", "request_error", "onstage", "offstage"}

\* Lines 276-284: the payloads of the candidates reported as is_edgeguard.
RECURSIVE KeepOffstage(_, _, _)
KeepOffstage(list, verdicts, offset) ==
    IF list = <<>> THEN <<>>
    ELSE (IF verdicts[offset + 1] = "offstage" THEN <<Head(list)>> ELSE <<>>)
         \o KeepOffstage(Tail(list), verdicts, offset + 1)

\* coaching.py 1011-1019 around refine_edgeguards_with_vision: no usable video
\* ("no_video"), an exception caught by the caller ("raised"), no API key or
\* library ("no_api"), or one verdict per candidate ("answered").
RefineEdgeguards ==
    /\ pc = "done"
    /\ pc' = "coached"
    /\ \E kind \in {"no_video", "raised", "no_api", "answered"} :
         \E verdicts \in [1..(Len(edgeguards) + Len(got_edgeguarded)) -> Verdicts] :
           /\ vision' = [kind |-> kind,
                         verdicts |-> IF kind = "answered" THEN verdicts ELSE <<>>]
           /\ IF kind \in {"no_video", "raised"} \/ (edgeguards = <<>> /\ got_edgeguarded = <<>>)
              THEN UNCHANGED <<edgeguards, got_edgeguarded>>
              ELSE IF kind = "no_api"
              THEN edgeguards' = <<>> /\ got_edgeguarded' = <<>>
              ELSE /\ edgeguards' = KeepOffstage(edgeguards, verdicts, 0)
                   /\ got_edgeguarded' = KeepOffstage(got_edgeguarded, verdicts, Len(edgeguards))
    /\ UNCHANGED <<game_states, smoothed_states, i, game_start_time, game_start, tracker,
                   combo, events, recovery_moments, momentum_swings, long_neutral, neutral,
                   global, post, history>>

Next == Smooth \/ DetectStart \/ ProcessSample \/ Deduplicate

NextTwice == Next \/ CallAgain

NextCoached == Next \/ RefineEdgeguards

NextSwapped == Next \/ CallSwapped

\* ----------------------------------------------------------------- inputs
Changes(s) == Cardinality({k \in 1..(Len(s) - 1) : s[k] # s[k + 1]})

\* The reading series of length n over vals with at most maxch changes of value.
Series(vals, n, maxch) == {s \in [1..n -> vals] : Changes(s) <= maxch}

MkStates(n, step, p1p, p2p, p1s, p2s) ==
    [k \in 1..n |-> Sample((k - 1) * step, p1p[k], p2p[k], p1s[k], p2s[k])]

Const(n, v) == [k \in 1..n |-> v]

\* Stock scenarios: one player's percent and stock readings vary (dropouts, rises,
\* resets, stock drops) at 1 or 4 ticks a sample, the other player idles at 0% with
\* 3 stocks.
StockPercents(n) == Series({None, 0, 65, 95}, n, 2)
StockCounts(n) == {s \in Series({None, 0, 2, 3}, n, 1) : s[1] = 3}

StockInput(states, maxlen) ==
    \E n \in 1..maxlen, step \in {1, 4} :
      \E a \in StockPercents(n), c \in StockCounts(n) :
        \/ states = MkStates(n, step, a, Const(n, 0), c, Const(n, 3))
        \/ states = MkStates(n, step, Const(n, 0), a, Const(n, 3), c)

\* Combo scenarios: the opponent's percent climbs a staircase of r rises of inc
\* starting after sample s; the player's percent steps from 0 to 10 at sample h.
Stair(n, s, r, inc) ==
    [k \in 1..n |-> inc * Min2(Max2(0, k - s), r)]
StepUp(n, h) == [k \in 1..n |-> IF k < h THEN 0 ELSE 10]

ComboInput(states) ==
    \E n \in 1..ComboLen, step \in {1, 2, 4}, inc \in {10, 30} :
      \E s \in 0..n, h \in 1..(n + 1) : \E r \in 0..(n - s) :
        states = MkStates(n, step, StepUp(n, h), Stair(n, s, r, inc),
                          Const(n, 3), Const(n, 3))

\* Spike scenarios: the player's percent reads 30, 50 or nothing at each sample.
SpikeInput(states) ==
    \E n \in 1..MaxLen : \E a \in [1..n -> {None, 30, 50}] :
        states = MkStates(n, 1, a, Const(n, 0), Const(n, 3), Const(n, 3))

\* Start scenarios: the player's percent reads nothing, 0 or 65 and the stock count
\* nothing or 3, at 1, 4 or 10 ticks a sample; the opponent's HUD reads 0% with
\* 3 stocks or is never read.
StartInput(states) ==
    \E n \in 1..StartLen, step \in {1, 4, 10} :
      \E a \in Series({None, 0, 65}, n, 2), c \in Series({None, 3}, n, 1) :
        \/ states = MkStates(n, step, a, Const(n, 0), c, Const(n, 3))
        \/ states = MkStates(n, step, a, Const(n, None), c, Const(n, None))

\* The same sample list starting t0 ticks into the recording.
ShiftBy(states, t0) ==
    [k \in 1..Len(states) |-> [states[k] EXCEPT !.timestamp = @ + t0]]

\* A life lost mid-match: the player holds base% then 97%, drops to 8% at sample d
\* while the stock reading goes 2 -> 1 (at the drop or one sample later); the
\* stream starts 5 s into the recording.
LifeLostInput(states) ==
    \E n \in 7..ScenLen, step \in {1, 2}, base \in {65, 97}, lag \in {0, 1}, opp \in {3, None} :
      \E d \in 5..(n - 2) :
        states = ShiftBy(MkStates(n, step,
                                  [k \in 1..n |-> IF k >= d THEN 8
                                                  ELSE IF k >= d - 2 THEN 97 ELSE base],
                                  Const(n, 0),
                                  [k \in 1..n |-> IF k >= d + lag THEN 1 ELSE 2],
                                  Const(n, opp)),
                         Sec(5))

\* Four hits in a row: after s samples at 0% the opponent's percent rises by 12 at
\* each of 4 consecutive samples 0.5 s apart and then stays; the player takes no
\* damage, or 10% at some sample h after the fourth hit.
HitsInput(states) ==
    \E n \in 7..HitsLen : \E s \in 3..(n - 4) : \E h \in (s + 5)..(n + 1) :
        states = MkStates(n, 1, StepUp(n, h), Stair(n, s, 4, 12), Const(n, 3), Const(n, 3))

\* Dropout scenarios: the player's percent reads v up to sample a, nothing up to
\* sample b and w from there on.
GapInput(states) ==
    \E n \in 1..GapLen, step \in {1, 4}, v \in {0, 30, 65}, w \in {0, 30, 65} :
      \E a \in 0..n : \E b \in a..n :
        states = MkStates(n, step,
                          [k \in 1..n |-> IF k <= a THEN v ELSE IF k <= b THEN None ELSE w],
                          Const(n, 0), Const(n, 3), Const(n, 3))

\* Stock-drop scenarios: after a clean start the player sits at 65%; from sample d
\* the stock reading shows v for len samples and 3 again afterwards, and the
\* percent stays or resets to 0 at d, with or without a single reading of 95 at
\* the sample after d.
DropInput(states) ==
    \E n \in 5..DropLen, v \in {0, 1}, w \in {0, 65}, peak \in BOOLEAN :
      \E d \in 5..n : \E len \in 0..(n - d + 1) :
        states = MkStates(n, 1,
                          [k \in 1..n |-> IF k <= 3 THEN 0
                                          ELSE IF k < d THEN 65
                                          ELSE IF peak /\ k = d + 1 THEN 95 ELSE w],
                          Const(n, 0),
                          [k \in 1..n |-> IF d <= k /\ k < d + len THEN v ELSE 3],
                          Const(n, 3))

\* End-of-stream scenarios: after a clean start the player holds x% up to sample
\* a, the HUD reads nothing from there to sample b and 0% afterwards; the opponent
\* holds y% up to sample a2 and reads nothing afterwards; the player's stock
\* reading is 3, or 2 from sample a on.
EndInput(states) ==
    \E n \in 4..EndLen, step \in {1, 2}, x \in {30, 65}, y \in {0, 65}, drop \in BOOLEAN :
      \E a \in 3..n : \E b \in {n, Min2(n, a + 5)}, a2 \in {a, Min2(n, a + 1), n} :
        states = MkStates(n, step,
                          [k \in 1..n |-> IF k <= 3 THEN 0 ELSE IF k <= a THEN x
                                          ELSE IF k <= b THEN None ELSE 0],
                          [k \in 1..n |-> IF k <= 3 THEN 0 ELSE IF k <= a2 THEN y ELSE None],
                          [k \in 1..n |-> IF drop /\ k >= a THEN 2 ELSE 3],
                          Const(n, 3))

\* Kill scenarios: the victim (either player) holds base% with 3 stocks, the stock
\* reading drops to 2 at sample d and the percent resets to 0 there, or one sample
\* later after a last reading of 65; the other player's percent steps from 0 to t
\* two samples before d.  The stream starts 5 s into the recording.
KillInput(states) ==
    \E n \in 9..KillLen, victim \in {"p1", "p2"}, base \in {40, 65, 150}, last \in {0, 65},
       t \in {0, 4, 15, 16} :
      \E d \in 5..(n - 3) :
        LET hurt == [k \in 1..n |-> IF k < d THEN base ELSE IF k = d THEN last ELSE 0]
            left == [k \in 1..n |-> IF k < d THEN 3 ELSE 2]
            other == [k \in 1..n |-> IF k < d - 2 THEN 0 ELSE t]
        IN  states = ShiftBy(IF victim = "p1"
                             THEN MkStates(n, 1, hurt, other, left, Const(n, 3))
                             ELSE MkStates(n, 1, other, hurt, Const(n, 3), left),
                             Sec(5))

\* Two lives of one player: a clean start, a first life at `hi`, a stock lost
\* at sample d1, a second life at `lo` from sample r, and a second stock lost
\* at sample d2; the HUD counts the stocks down or stays at 3.
LivesInput(states) ==
    \E n \in 14..LivesLen, victim \in {"p1", "p2"}, step \in {1, 2}, hi \in {65, 95},
       lo \in {30, 65}, counted \in BOOLEAN :
      \E d1 \in 6..7, gap \in 2..3, d2 \in 11..(n - 3) :
        LET r == d1 + gap
            hurt == [k \in 1..n |-> IF k <= 3 THEN 0 ELSE IF k < d1 THEN hi
                                    ELSE IF k < r THEN 0 ELSE IF k < d2 THEN lo ELSE 0]
            left == [k \in 1..n |-> IF ~counted \/ k < d1 THEN 3
                                    ELSE IF k < d2 THEN 2 ELSE 1]
        IN  states = IF victim = "p1"
                     THEN MkStates(n, step, hurt, Const(n, 0), left, Const(n, 3))
                     ELSE MkStates(n, step, Const(n, 0), hurt, Const(n, 3), left)

\* Event lists as the main pass hands them to the deduplicator: in time order,
\* neighbours 0 s, 3 s, 5 s or just over 5 s apart.
StockEvent(ts, left) ==
    [timestamp |-> ts, percent |-> 65, stocks_remaining |-> left, synthesized |-> FALSE]

RECURSIVE EventLists(_, _)
EventLists(n, from) ==
    IF n = 0 THEN {<<>>}
    ELSE {<<>>} \cup
         UNION {{<<StockEvent(from + gap, left)>> \o rest :
                    rest \in EventLists(n - 1, from + gap)} :
                gap \in {0, Sec(3), Sec(5), Sec(5) + 1}, left \in 0..2}

Idle == pc = "smooth" /\ Fresh /\ run = 1 /\ first = <<>> /\ vision = "idle"

Init == StockInput(game_states, MaxLen) /\ Idle
InitCombo == ComboInput(game_states) /\ Idle
InitSpike == SpikeInput(game_states) /\ Idle
InitTwice == StockInput(game_states, TwiceLen) /\ Idle
InitStart == StartInput(game_states) /\ Idle
InitLifeLost == LifeLostInput(game_states) /\ Idle
InitHits == HitsInput(game_states) /\ Idle
InitGap == GapInput(game_states) /\ Idle
InitDrop == DropInput(game_states) /\ Idle
InitEnd == EndInput(game_states) /\ Idle
InitKill == KillInput(game_states) /\ Idle
InitLives == LivesInput(game_states) /\ Idle
InitDedup ==
    /\ game_states = <<>>
    /\ FreshLocals /\ run = 1 /\ first = <<>> /\ vision = "idle"
    /\ pc = "dedup"
    /\ \E list \in EventLists(MaxEvents, 0) : stock_losses = list /\ kills = list

Spec == Init /\ [][Next]_vars
SpecCombo == InitCombo /\ [][Next]_vars
SpecSpike == InitSpike /\ [][Next]_vars
SpecTwice == InitTwice /\ [][NextTwice]_vars
SpecStart == InitStart /\ [][Next]_vars
SpecLifeLost == InitLifeLost /\ [][Next]_vars
SpecHits == InitHits /\ [][Next]_vars
SpecGap == InitGap /\ [][Next]_vars
SpecCoached == InitLifeLost /\ [][NextCoached]_vars
SpecDrop == InitDrop /\ [][Next]_vars
SpecEnd == InitEnd /\ [][Next]_vars
SpecKill == InitKill /\ [][Next]_vars
SpecLives == InitLives /\ [][Next]_vars
SpecSwapped == InitEnd /\ [][NextSwapped]_vars
SpecDedup == InitDedup /\ [][Deduplicate]_vars

\* ------------------------------------------------------------- properties
Finals(list) == {j \in 1..Len(list) : list[j].stocks_remaining = 0}
IsFinal(e) == e.stocks_remaining = 0
LastTime == game_states[Len(game_states)].timestamp
IdxOf(ts) == CHOOSE k \in 1..Len(game_states) : game_states[k].timestamp = ts

Decreasing(list) ==
    \A a, b \in 1..Len(list) :
        a < b => /\ list[a].timestamp < list[b].timestamp
                 /\ list[a].stocks_remaining > list[b].stocks_remaining

\* C1: read in timestamp order, the stocks_remaining values of each player's stock
\* events are strictly decreasing, and no step of the pass raises a player's
\* confirmed stock count.
C1_StocksStrictlyDecrease ==
    [][/\ Decreasing(stock_losses') /\ Decreasing(kills')
       /\ confirmed_p1_stocks' <= confirmed_p1_stocks
       /\ confirmed_p2_stocks' <= confirmed_p2_stocks]_vars

\* Two stock losses of the same player came out of one call.
W1_TwoLosses == pc = "done" /\ (Len(stock_losses) >= 2 \/ Len(kills) >= 2)

\* C2: a player never has more than one event with stocks_remaining = 0, whichever
\* path (stock count, percent reset, synthesis) emitted it.
C2_AtMostOneFinal ==
    Cardinality(Finals(stock_losses)) <= 1 /\ Cardinality(Finals(kills)) <= 1

\* A final event was emitted and samples that still read 0 stocks came after it.
W2_SamplesAfterFinal ==
    /\ pc = "done"
    /\ \E j \in Finals(stock_losses) :
          /\ stock_losses[j].timestamp < LastTime
          /\ ~stock_losses[j].synthesized
          /\ game_states[Len(game_states)].p1_stocks = 0

\* C3 as stated: a match whose end was detected has exactly one event with
\* stocks_remaining = 0 for each player.
X3_ExactlyOneFinalEach ==
    (pc = "done" /\ game_end # None) =>
        Cardinality(Finals(stock_losses)) = 1 /\ Cardinality(Finals(kills)) = 1

\* C3, amended: a returned timeline whose game_end is unset has no event with
\* stocks_remaining = 0; one whose game_end is set has such an event for at least
\* one player and never two for the same player.  The other player may have none.
C3_OneFinalWhenEnded ==
    pc = "done" =>
        /\ game_end = None => Finals(stock_losses) = {} /\ Finals(kills) = {}
        /\ game_end # None =>
              /\ Finals(stock_losses) # {} \/ Finals(kills) # {}
              /\ Cardinality(Finals(stock_losses)) <= 1
              /\ Cardinality(Finals(kills)) <= 1

\* A match ended by the player's last stock: the opponent has no final event.
W3_LoserOnly ==
    /\ pc = "done" /\ game_end # None
    /\ Cardinality(Finals(stock_losses)) = 1 /\ Finals(kills) = {}
    /\ Len(stock_losses) >= 2

\* C4: the deduplicator keeps every stocks_remaining = 0 event of its input, however
\* close it lies to an event kept before it.
C4_FinalsSurvive ==
    (pc = "done" /\ pre_dedup # <<>>) =>
        /\ SelectSeq(stock_losses, IsFinal) = SelectSeq(pre_dedup[1], IsFinal)
        /\ SelectSeq(kills, IsFinal) = SelectSeq(pre_dedup[2], IsFinal)

\* A final event was kept within 5 s of the event kept before it.
W4_FinalInsideWindow ==
    /\ pc = "done"
    /\ \E j \in 2..Len(stock_losses) :
          /\ IsFinal(stock_losses[j])
          /\ ~IsFinal(stock_losses[j - 1])
          /\ stock_losses[j].timestamp - stock_losses[j - 1].timestamp <= Sec(5)

RECURSIVE PickFrom(_, _, _)
PickFrom(list, K, k) ==
    IF k > Len(list) THEN <<>>
    ELSE (IF k \in K THEN <<list[k]>> ELSE <<>>) \o PickFrom(list, K, k + 1)

\* out is list with some events dropped: each dropped event is not final and lies
\* within 5 s of an earlier kept one; each kept non-final event lies more than 5 s
\* after every event kept before it.
Collapsed(list, out) ==
    /\ \A a, b \in 1..Len(out) : a < b => out[a].timestamp <= out[b].timestamp
    /\ \E K \in SUBSET (1..Len(list)) :
          /\ PickFrom(list, K, 1) = out
          /\ \A m \in (1..Len(list)) \ K :
                /\ ~IsFinal(list[m])
                /\ \E j \in K : j < m /\ list[m].timestamp - list[j].timestamp <= Sec(5)
          /\ \A j \in K :
                ~IsFinal(list[j]) =>
                    \A h \in K : h < j => list[j].timestamp - list[h].timestamp > Sec(5)

\* C5: the deduplicator's output is a time-sorted sub-list of its input; the first
\* event of each group within 5 s is the one kept, every kept non-final event is
\* more than 5 s after the kept event before it, and deduplicating the output
\* again changes nothing.
C5_GroupsCollapse ==
    (pc = "done" /\ pre_dedup # <<>>) =>
        /\ Collapsed(pre_dedup[1], stock_losses)
        /\ Collapsed(pre_dedup[2], kills)
        /\ _deduplicate_events(stock_losses) = stock_losses
        /\ _deduplicate_events(kills) = kills

\* Three non-final events: the middle one was dropped, the third kept.
W5_MiddleDropped ==
    /\ pc = "done" /\ pre_dedup # <<>>
    /\ Len(pre_dedup[1]) = 3
    /\ \A j \in 1..3 : ~IsFinal(pre_dedup[1][j])
    /\ stock_losses = <<pre_dedup[1][1], pre_dedup[1][3]>>

\* C6: no emitted combo has fewer than 3 hits or 25 damage or less, whichever of
\* the four flushes emitted it.
C6_CombosClearBar ==
    \A j \in 1..Len(combos) : combos[j].hits >= 3 /\ combos[j].damage > 25

\* A call emitted a combo.
W6_ComboEmitted == pc = "done" /\ combos # <<>>

\* The player's raw percent at k is one elevated reading: the readings on both sides
\* are equal and lower, and no other reading of the list is above them.
SingleFrameSpike(k) ==
    /\ 1 < k /\ k < Len(game_states)
    /\ game_states[k - 1].p1_percent # None
    /\ game_states[k + 1].p1_percent = game_states[k - 1].p1_percent
    /\ game_states[k].p1_percent > game_states[k - 1].p1_percent
    /\ \A j \in (1..Len(game_states)) \ {k} :
          game_states[j].p1_percent <= game_states[k - 1].p1_percent

\* C7 as stated: a one-sample percent spike that does not persist yields no
\* damage-spike event for the jump from the level before it to the spike,
\* whatever the surrounding samples.
X7_SingleFrameSpikeRejected ==
    \A k \in 1..Len(game_states) :
        SingleFrameSpike(k) =>
            \A j \in 1..Len(damage_spikes) :
                ~ /\ damage_spikes[j].from_percent = game_states[k - 1].p1_percent
                  /\ damage_spikes[j].to_percent = game_states[k].p1_percent

RawPeakBefore(player, k) ==
    LET S == {Or0(Pct(game_states[j], player)) :
                 j \in Max2(1, k - lookback_frames)..(k - 1)} \cup {0}
    IN  CHOOSE x \in S : \A y \in S : y <= x

\* The percent the main pass carries for a player after position k.
RECURSIVE LastKnown(_, _)
LastKnown(player, k) ==
    IF k < 1 \/ smoothed_states[k].timestamp < game_start_time THEN 0
    ELSE IF Pct(smoothed_states[k], player) # None THEN Pct(smoothed_states[k], player)
    ELSE LastKnown(player, k - 1)

PercentFromRaw(player, list) ==
    \A j \in 1..Len(list) :
        list[j].percent = RawPeakBefore(player, IdxOf(list[j].timestamp))

PercentBySource(player, list) ==
    \A j \in 1..Len(list) :
        LET e == list[j]
            k == IdxOf(e.timestamp)
            peak == RawPeakBefore(player, k)
        IN  IF e.synthesized THEN e.percent = LastKnown(player, k - 1)
            ELSE IF peak > 0 THEN e.percent = peak
            ELSE /\ e.percent > 0
                 /\ \/ e.percent = Pct(game_states[k], player)
                    \/ \E h \in 1..k : e.percent = Pct(smoothed_states[h], player)

\* C8 as stated: every stock event, synthesized ones included, carries the maximum
\* raw percent of the lookback window before its detection sample.
X8_PercentFromRawAllPaths ==
    PercentFromRaw("p1", stock_losses) /\ PercentFromRaw("p2", kills)

\* C8, amended: an event of the stock-count or percent-reset path carries the
\* maximum raw percent of the lookback window before its detection sample when that
\* is positive, else a positive reading the tracker saw up to that sample; a
\* synthesized event carries the last percent the main pass carried.
C8_PercentBySource ==
    PercentBySource("p1", stock_losses) /\ PercentBySource("p2", kills)

\* A raw one-sample peak of 95 that smoothing removed is the percent of the event.
W8_RawPeakRecovered ==
    /\ pc = "done"
    /\ \E j \in 1..Len(stock_losses) :
          /\ ~stock_losses[j].synthesized /\ stock_losses[j].percent = 95
          /\ \A h \in 1..Len(smoothed_states) : smoothed_states[h].p1_percent # 95

C10_ZeroStockPreserved ==
    (pc # "smooth" /\ Len(game_states) >= 2) =>
        /\ Len(smoothed_states) = Len(game_states)
        /\ \A k \in 1..Len(game_states) :
              /\ game_states[k].p1_stocks = 0 => smoothed_states[k].p1_stocks = 0
              /\ game_states[k].p2_stocks = 0 => smoothed_states[k].p2_stocks = 0

\* A raw 0 was kept although 3 is the most frequent reading of its window.
W10_ZeroAgainstMode ==
    /\ pc = "start"
    /\ \E k \in 1..Len(game_states) :
          /\ game_states[k].p1_stocks = 0 /\ smoothed_states[k].p1_stocks = 0
          /\ Cardinality({j \in Max2(1, k - 2)..Min2(Len(game_states), k + 2) :
                             game_states[j].p1_stocks = 3}) >= 2
          /\ Cardinality({j \in Max2(1, k - 2)..Min2(Len(game_states), k + 2) :
                             game_states[j].p1_stocks = 0}) = 1

\* C11: whenever the smoothed samples hold a run of at least 3 consecutive samples
\* in which both players read a percent of at most 5 and 3 stocks, game_start is
\* the timestamp of the first sample of the first such run.
ReadsClean(s) ==
    /\ s.p1_percent # None /\ s.p1_percent <= 5
    /\ s.p2_percent # None /\ s.p2_percent <= 5
    /\ s.p1_stocks = 3 /\ s.p2_stocks = 3

ReadRuns(sm) ==
    {k \in 1..(Len(sm) - 2) : ReadsClean(sm[k]) /\ ReadsClean(sm[k + 1]) /\ ReadsClean(sm[k + 2])}

StartResolved == pc \in {"loop", "dedup", "done"}

X11_StartIsFirstReadRun ==
    (StartResolved /\ ReadRuns(smoothed_states) # {})
        => game_start = smoothed_states[MinOf(ReadRuns(smoothed_states))].timestamp

\* C12: no sample with a timestamp strictly before the resolved match start is read
\* by a later stage.  A percent_at_death computed from the samples at or after the
\* start alone is the maximum of such readings, so it never exceeds the largest
\* raw or smoothed percent of that player from the start on.
PeakSinceStart(player) ==
    LET js == {j \in 1..Len(game_states) : game_states[j].timestamp >= game_start_time}
        seen == {Or0(Pct(game_states[j], player)) : j \in js}
                \cup {Or0(Pct(smoothed_states[j], player)) : j \in js}
    IN  IF seen = {} THEN 0 ELSE CHOOSE x \in seen : \A y \in seen : y <= x

X12_PreStartNeverRead ==
    StartResolved =>
        /\ \A j \in 1..Len(stock_losses) : stock_losses[j].percent <= PeakSinceStart("p1")
        /\ \A j \in 1..Len(kills) : kills[j].percent <= PeakSinceStart("p2")

\* C13: once the match is over (a confirmed stock count reached 0 or a final event
\* was synthesized, at the sample stamped game_end), no event of any kind is
\* emitted for a later sample.
NoneAfter(list, ts) == \A j \in 1..Len(list) : list[j].timestamp <= ts

X13_NothingAfterGameOver ==
    game_end # None =>
        /\ NoneAfter(stock_losses, game_end) /\ NoneAfter(kills, game_end)
        /\ NoneAfter(damage_spikes, game_end) /\ NoneAfter(damage_dealt, game_end)
        /\ \A j \in 1..Len(combos) : combos[j].end <= game_end
        /\ NoneAfter(edgeguards, game_end) /\ NoneAfter(got_edgeguarded, game_end)
        /\ NoneAfter(recovery_moments, game_end) /\ NoneAfter(momentum_swings, game_end)
        /\ \A j \in 1..Len(long_neutral) : long_neutral[j].end <= game_end

\* C14: when P1 holds at least 50% for several frames and then drops from 97% to 8%
\* while P1's stock reading goes 2 -> 1, the timeline holds exactly one stock-loss
\* event for P1, with percent_at_death 97 and stocks_remaining 1.
X14_OneLossLeavingOneStock ==
    pc = "done" =>
        /\ Len(stock_losses) = 1
        /\ stock_losses[1].percent = 97
        /\ stock_losses[1].stocks_remaining = 1

\* C15: four consecutive samples each adding 12% to P2 within 1.5 s, P1 taking no
\* damage meanwhile, produce exactly one ComboEvent with hit_count 4 and damage 48,
\* whatever follows the fourth hit, the end of the stream included.
X15_FourHitsOneCombo ==
    pc = "done" =>
        /\ Len(combos) = 1
        /\ combos[1].hits = 4
        /\ combos[1].damage = 48

\* C16: a null percent is replaced by the player's last known value in every stage
\* and never treated as 0, so a null between two equal readings produces no damage:
\* when the first smoothed sample reads a percent and every non-null smoothed
\* reading of the player is that same value, no stage-control snapshot reports
\* damage taken.
X16_NullGapNoDamage ==
    (/\ pc = "done" /\ smoothed_states # <<>>
     /\ smoothed_states[1].p1_percent # None
     /\ \A k \in 1..Len(smoothed_states) :
            smoothed_states[k].p1_percent \in {None, smoothed_states[1].p1_percent})
        => \A j \in 1..Len(stage_control_timeline) :
               stage_control_timeline[j].damage_taken = 0

\* C17: when the vision classifier is invoked and fails (no API key or library, a
\* request error, or no frames extracted), the edgeguard and got_edgeguarded lists
\* stay as the heuristics left them.
ClassifierFailed(v) ==
    \/ v.kind \in {"raised", "no_api"}
    \/ /\ v.kind = "answered"
       /\ \E j \in 1..Len(v.verdicts) : v.verdicts[j] \in {"no_frames", "request_error"}

X17_FailureKeepsLists ==
    [][(pc = "done" /\ pc' = "coached" /\ ClassifierFailed(vision'))
          => (edgeguards' = edgeguards /\ got_edgeguarded' = got_edgeguarded)]_vars

\* C18 as stated: when the clean-start search finds no run, game_start is the
\* timestamp of the first smoothed sample from t = 5 s on that has any non-null
\* percent or stock value.
HasPercent(s) == s.p1_percent # None \/ s.p2_percent # None
HasStocks(s) == s.p1_stocks # None \/ s.p2_stocks # None
FromFive(sm) == {k \in 1..Len(sm) : sm[k].timestamp >= Sec(5)}

MaxRecentAt(player) ==
    LET state == smoothed_states[i]
        prev == IF player = "p1" THEN prev_p1_percent ELSE prev_p2_percent
        kept == IF player = "p1" THEN p1_max_recent_percent ELSE p2_max_recent_percent
        percent == IF Pct(state, player) = None THEN prev ELSE Pct(state, player)
        raw == game_states[RawIdx(game_states, state.timestamp, i)]
    IN  Max2(Max2(kept, Or0(Pct(raw, player))), percent)

StockPathConfirms(player) ==
    /\ pc = "loop" /\ i \in 1..Len(smoothed_states) /\ ~game_over
    /\ smoothed_states[i].timestamp >= game_start_time
    /\ detect_stock_loss(smoothed_states, i, player,
                         IF player = "p1" THEN confirmed_p1_stocks ELSE confirmed_p2_stocks,
                         MaxRecentAt(player), game_start_time) # None

Following == Min2(5, Len(smoothed_states) - i)
Persisting(player) ==
    Cardinality({j \in 1..Following :
                    /\ Stk(smoothed_states[i + j], player) # None
                    /\ Stk(smoothed_states[i + j], player) <= Stk(smoothed_states[i], player)})
InLastTenth == (i - 1) * 10 >= Len(smoothed_states) * 9

FallbackTriggers(player) ==
    LET state == smoothed_states[i]
        prev == IF player = "p1" THEN prev_p1_percent ELSE prev_p2_percent
        percent == IF Pct(state, player) = None THEN prev ELSE Pct(state, player)
    IN  /\ pc = "loop" /\ i \in 1..Len(smoothed_states) /\ ~game_over
        /\ state.timestamp >= game_start_time
        /\ ~StockPathConfirms(player)
        /\ detect_death_by_percent_reset(smoothed_states, i, player, MaxRecentAt(player),
                                         prev, percent)

\* C20 as stated: when the percent-reset fallback triggers, confirmed_stocks goes
\* down by exactly 1 and the emitted event's percent_at_death is the player's
\* max_recent_percent at the trigger sample.
X20_FallbackUsesMaxRecent ==
    [][FallbackTriggers("p1")
          => /\ confirmed_p1_stocks' = confirmed_p1_stocks - 1
             /\ stock_losses'[Len(stock_losses')].percent = MaxRecentAt("p1")]_vars

\* C20 (amended): when the percent-reset fallback triggers, confirmed_stocks goes
\* down by exactly 1, one event is emitted with that count as stocks_remaining, and
\* its percent_at_death is the raw maximum of the 60 samples before the trigger
\* sample when that is positive, the max_recent_percent otherwise.
C20_FallbackUsesRawPeak ==
    [][FallbackTriggers("p1")
          => /\ confirmed_p1_stocks' = confirmed_p1_stocks - 1
             /\ Len(stock_losses') = Len(stock_losses) + 1
             /\ stock_losses'[Len(stock_losses')].stocks_remaining = confirmed_p1_stocks - 1
             /\ stock_losses'[Len(stock_losses')].percent =
                    IF RawPeakBefore("p1", i) > 0 THEN RawPeakBefore("p1", i)
                    ELSE MaxRecentAt("p1")]_vars

\* A loss reported while the stock reading still shows 3 (the fallback), with a
\* percent below the raw reading of the trigger sample itself.
W20_BelowTriggerReading ==
    /\ pc = "done"
    /\ \E j \in 1..Len(stock_losses) :
          LET k == IdxOf(stock_losses[j].timestamp)
          IN  /\ smoothed_states[k].p1_stocks = 3
              /\ stock_losses[j].percent < Or0(game_states[k].p1_percent)

\* The pass reaches sample i with the match not over, carrying a percent of at
\* least 60 for the player, the smoothed reading of the player is null, the sample
\* lies in the final 25% of the stream and none of the player's events so far is
\* stamped within the 2 s before the sample.
Carried(player) == IF player = "p1" THEN prev_p1_percent ELSE prev_p2_percent
StockList(player) == IF player = "p1" THEN stock_losses ELSE kills

HudLostLate(player) ==
    /\ pc = "loop" /\ i \in 1..Len(smoothed_states) /\ ~game_over
    /\ smoothed_states[i].timestamp >= game_start_time
    /\ Carried(player) >= 60
    /\ Pct(smoothed_states[i], player) = None
    /\ (i - 1) * 4 >= Len(smoothed_states) * 3
    /\ \A j \in 1..Len(StockList(player)) :
          StockList(player)[j].timestamp < smoothed_states[i].timestamp - Sec(2)

FinalEvent(player) ==
    [timestamp |-> smoothed_states[i].timestamp, percent |-> Carried(player),
     stocks_remaining |-> 0, synthesized |-> TRUE]

\* The step records a stock loss of the player found by the stock-count path or the
\* percent-reset fallback; it leaves a player without stocks; it appends the
\* analyzed player's synthesized final event.
LosesStock(player) ==
    IF player = "p1" THEN confirmed_p1_stocks' # confirmed_p1_stocks
    ELSE confirmed_p2_stocks' # confirmed_p2_stocks
LastStockTaken == confirmed_p1_stocks' = 0 \/ confirmed_p2_stocks' = 0
PlayerFinalSynthesized ==
    /\ Len(stock_losses') > Len(stock_losses)
    /\ stock_losses'[Len(stock_losses')].synthesized

DamageAt(player) ==
    LET read == Pct(smoothed_states[i], player)
    IN  Max2(0, (IF read = None THEN Carried(player) ELSE read) - Carried(player))

\* A hit of the running combo: a processed sample from combo_start on at which the
\* opponent's percent rose by more than 8.
ComboHitsSoFar ==
    {k \in 2..(i - 1) :
        /\ smoothed_states[k].timestamp >= combo_start
        /\ smoothed_states[k].p2_percent - smoothed_states[k - 1].p2_percent > 8}
LatestHit ==
    IF ComboHitsSoFar = {} THEN combo_start
    ELSE smoothed_states[CHOOSE k \in ComboHitsSoFar : \A h \in ComboHitsSoFar : h <= k].timestamp

\* The step ends a running combo at a sample without damage in either direction.
InactivityFlush ==
    /\ pc = "loop" /\ i \in 1..Len(smoothed_states)
    /\ smoothed_states[i].timestamp >= game_start_time
    /\ combo_start # None /\ combo_start' = None
    /\ DamageAt("p2") <= 8 /\ DamageAt("p1") <= 5

\* C22: a running combo is flushed for inactivity only after more than 3 s with no
\* damage in either direction: a sample without damage that comes 3 s or less
\* after the combo's latest hit does not end the combo.
X22_FlushAfterThreeIdleSeconds ==
    [][InactivityFlush => smoothed_states[i].timestamp - LatestHit > Sec(3)]_vars

\* The score as the claim counts it: the percent of the stock event in [50, 145],
\* the killer's damage dealt before the kill below 30, the killer's damage taken
\* at most 15, and below 5.
ClaimedScore(event_percent, dealt_before, taken) ==
    Score(50 <= event_percent /\ event_percent <= 145, dealt_before < 30,
          taken <= 15, taken < 5)

Appended(list, list2) == Len(list2) = Len(list) + 1
Newest(list) == list[Len(list)]

\* C23: an edgeguard event is emitted for a confirmed kill exactly when the score
\* is at least 3 and is flagged high-confidence exactly when it is 4, the score
\* counting the percent recorded on the kill event, the killer's damage dealt
\* before the kill and the killer's damage taken; got_edgeguarded events are
\* emitted for the player's confirmed stock losses by the same thresholds mirrored.
X23_ScoreDecidesLabel ==
    [][/\ (pc = "loop" /\ LosesStock("p2"))
            => LET score == ClaimedScore(Newest(kills').percent,
                                         RisesIn("p2", i, 15), RisesIn("p1", i, 10))
               IN  /\ Appended(edgeguards, edgeguards') <=> score >= 3
                   /\ Appended(edgeguards, edgeguards')
                        => /\ Newest(edgeguards').timestamp = smoothed_states[i].timestamp
                           /\ Newest(edgeguards').is_likely_edgeguard <=> score = 4
       /\ (pc = "loop" /\ LosesStock("p1"))
            => LET score == ClaimedScore(Newest(stock_losses').percent,
                                         RisesIn("p1", i, 10), RisesIn("p2", i, 10))
               IN  /\ Appended(got_edgeguarded, got_edgeguarded') <=> score >= 3
                   /\ Appended(got_edgeguarded, got_edgeguarded')
                        => Newest(got_edgeguarded').timestamp = smoothed_states[i].timestamp]_vars

\* The smoothed samples stamped within 5 s after a stock loss of the timeline.
AfterLoss(k) ==
    \E j \in 1..Len(stock_losses) :
        /\ 0 <= smoothed_states[k].timestamp - stock_losses[j].timestamp
        /\ smoothed_states[k].timestamp - stock_losses[j].timestamp <= Sec(5)

\* A phase holds a timestamp when it lies in [start, end); the last phase holds
\* its end as well.
PhaseHolds(j, ts) ==
    /\ game_phases[j].start <= ts
    /\ ts < game_phases[j].end \/ (j = Len(game_phases) /\ ts = game_phases[j].end)

\* C24: every smoothed sample stamped within 5 s after a confirmed stock loss of
\* the analyzed player falls inside a phase labelled after_death.
X24_AfterDeathCoversWindow ==
    pc = "done" =>
        \A k \in 1..Len(smoothed_states) :
            AfterLoss(k) =>
                \E j \in 1..Len(game_phases) :
                    /\ PhaseHolds(j, smoothed_states[k].timestamp)
                    /\ game_phases[j].phase = "after_death"

\* C25: the game_phases list is a contiguous partition: the first phase starts at
\* the match start time the pass worked with, each following phase starts exactly
\* where the one before it ends, every phase has start < end, and the last phase
\* ends at the timestamp of the last sample.
C25_PhasesPartition ==
    (pc = "done" /\ game_phases # <<>>) =>
        /\ game_phases[1].start = game_start_time
        /\ \A j \in 1..(Len(game_phases) - 1) : game_phases[j + 1].start = game_phases[j].end
        /\ \A j \in 1..Len(game_phases) : game_phases[j].start < game_phases[j].end
        /\ game_phases[Len(game_phases)].end = smoothed_states[Len(smoothed_states)].timestamp

\* Four phases or more, an after_death phase among them that is not the last.
W25_SeveralPhases ==
    /\ pc = "done" /\ Len(game_phases) >= 4
    /\ \E j \in 1..(Len(game_phases) - 1) : game_phases[j].phase = "after_death"

\* The stock events of a list without the flag that marks a synthesized one.
Plain(list) ==
    [j \in 1..Len(list) |->
        [timestamp |-> list[j].timestamp, percent |-> list[j].percent,
         stocks_remaining |-> list[j].stocks_remaining]]

\* C26: swapping the two players in every input sample swaps the roles in the
\* output: the kills of the swapped run have the timestamps, percents and
\* stocks_remaining of the stock losses of the original run and vice versa, final
\* events synthesized when both HUDs are lost at one sample included.
X26_SwapMirrorsStockEvents ==
    (run = 2 /\ pc = "done") =>
        /\ Plain(kills) = Plain(first.stock_losses)
        /\ Plain(stock_losses) = Plain(first.kills)

\* The highest raw percent of the player over the samples from the one of the
\* player's previous event in the list (the first sample for the first event) to
\* the one of event j.
PeakThisLife(player, list, j) ==
    LET from == IF j = 1 THEN 1 ELSE IdxOf(list[j - 1].timestamp)
        seen == {Or0(Pct(game_states[k], player)) : k \in from..IdxOf(list[j].timestamp)}
    IN  CHOOSE x \in seen : \A y \in seen : y <= x

\* C27: the percent of a stock-loss or kill event never exceeds the highest raw
\* percent the player showed since the player's previous confirmed stock loss (or
\* since the beginning for the first one): a peak of an earlier life that still
\* lies inside the 60-sample lookback is not attributed to the later death.
X27_PercentFromThisLife ==
    pc = "done" =>
    /\ \A j \in 1..Len(stock_losses) :
          stock_losses[j].percent <= PeakThisLife("p1", stock_losses, j)
    /\ \A j \in 1..Len(kills) : kills[j].percent <= PeakThisLife("p2", kills, j)

\* The tracker's count and the last retained event of a list agree, for a list
\* that has an event and no synthesized one.
AgreesWithTracker(list, confirmed) ==
    (Len(list) >= 1 /\ \A j \in 1..Len(list) : ~list[j].synthesized) =>
        list[Len(list)].stocks_remaining = confirmed

\* C28: after deduplication, for each player with at least one stock-loss event
\* and no synthesized final event, the stocks_remaining of the player's last
\* retained event equals the tracker's confirmed stock count at the end of the
\* pass.
X28_TimelineAgreesWithTracker ==
    pc = "done" =>
        /\ AgreesWithTracker(stock_losses, confirmed_p1_stocks)
        /\ AgreesWithTracker(kills, confirmed_p2_stocks)

\* The stock-loss and kill events of the timeline.
StockEvents == {stock_losses[j] : j \in 1..Len(stock_losses)} \cup {kills[j] : j \in 1..Len(kills)}

\* C29: game_end is set if and only if the final timeline has a stock-loss or
\* kill event with stocks_remaining 0; it then equals the timestamp of that
\* event, and no stock-loss or kill event of the timeline is later.
C29_GameEndIsFinalEvent ==
    pc = "done" =>
        /\ game_end # None <=> \E e \in StockEvents : IsFinal(e)
        /\ \A e \in StockEvents : IsFinal(e) => e.timestamp = game_end
        /\ game_end # None => \A e \in StockEvents : e.timestamp <= game_end

\* A match that ended: the last stock is lost after an earlier stock loss that
\* is still in the timeline.
W29_EndedAfterEarlierLoss ==
    /\ pc = "done" /\ game_end # None
    /\ \E e \in StockEvents : IsFinal(e) /\ ~e.synthesized
    /\ \E e \in StockEvents : ~IsFinal(e) /\ e.timestamp < game_end

\* Every event of `marks` has an event of `list` with the same timestamp.
EachHasStockEvent(marks, list) ==
    \A j \in 1..Len(marks) : \E k \in 1..Len(list) : list[k].timestamp = marks[j].timestamp

\* C30: in the final timeline every edgeguard has a kill with the same
\* timestamp in the deduplicated kills, and every got_edgeguarded event has a
\* stock loss with the same timestamp in the deduplicated stock losses.
X30_EdgeguardsHaveStockEvents ==
    pc = "done" =>
        /\ EachHasStockEvent(edgeguards, kills)
        /\ EachHasStockEvent(got_edgeguarded, stock_losses)

====
